---- MODULE Spec2Model ----
(***************************************************************************)
(* A model of the record-construction and emission pipeline of logrus      *)
(* (entry.go): the field-chaining operations of Entry, the severity gate   *)
(* matchLevel, the emission Entry.log and the logging methods built on it. *)
(*                                                                         *)
(* Go maps are references, so the model keeps a heap of maps (maps) and a  *)
(* heap of Entry objects (entries) whose Data is the index of a map.       *)
(***************************************************************************)
EXTENDS Integers, Sequences, FiniteSets, TLC

(***************************************************************************)
(* Bounds of the model.                                                    *)
(***************************************************************************)
MaxEntries == 3
MaxExtras == 3
NumCallers == 2
MaxCalls == 2
MaxSets == 1

(***************************************************************************)
(* Go values stored in Fields (interface{}): strings, ints, nil and error  *)
(* values.  n is the number of an int, or the index of an error object.    *)
(***************************************************************************)
Str(s) == [kind |-> "string", s |-> s, n |-> 0]
IntV(i) == [kind |-> "int", s |-> "", n |-> i]
Nil == [kind |-> "nil", s |-> "", n |-> 0]
ErrV(i) == [kind |-> "error", s |-> "", n |-> i]

DefaultModuleName == ""
ErrorKey == "error"
StacktraceKey == "stacktrace"
ModuleNameKey == "module"

\* Fields{}: a map with no entries.
EmptyFields == [k \in {} |-> Nil]
\* Fields{key: value}
OneField(key, value) == [k \in {key} |-> value]
\* for k, v := range src { dst[k] = v }
CopyInto(dst, src) ==
    [k \in DOMAIN dst \cup DOMAIN src |-> IF k \in DOMAIN src THEN src[k] ELSE dst[k]]
\* m[key] = value
Put(m, key, value) == CopyInto(m, OneField(key, value))

(***************************************************************************)
(* fmt.Sprintf("%v", val) of the values of the model.                      *)
(***************************************************************************)
Digit(d) == <<"0", "1", "2", "3", "4", "5", "6", "7", "8", "9">>[d + 1]
RECURSIVE Itoa(_)
Itoa(i) == IF i < 10 THEN Digit(i) ELSE Itoa(i \div 10) \o Digit(i % 10)
Sprintv(val) ==
    CASE val.kind = "string" -> val.s
      [] val.kind = "int" -> Itoa(val.n)
      [] val.kind = "nil" -> "<nil>"
      [] OTHER -> "err" \o Itoa(val.n)

stringify(val) == IF val.kind = "string" THEN val.s ELSE Sprintv(val)

(***************************************************************************)
(* The error objects a caller may hand to WithError.  A structured error   *)
(* (Go type *errors.Error) has a Name, a captured stack and a Fields map    *)
(* that lives on the heap; any other error has none of them.               *)
(***************************************************************************)
ErrObjs ==
    << [structured |-> TRUE, Name |-> "foo", Fields |-> 1, stack |-> "stack@err1"],
       [structured |-> TRUE, Name |-> "", Fields |-> 2, stack |-> "stack@err2"],
       [structured |-> FALSE, Name |-> "", Fields |-> 0, stack |-> ""] >>
ErrIds == 1..Len(ErrObjs)
\* The maps the error objects carry, at heap positions 1 and 2.
ErrFields ==
    << [k \in {"path"} |-> Str("/tmp")],
       [k \in {"path", ErrorKey, ModuleNameKey} |->
            IF k = ModuleNameKey THEN IntV(7) ELSE Str("user")] >>
\* errors.Stack(skip): a trace captured at the call site.
StackHere(site) == Str("stack@" \o site)

VARIABLES
    maps,       \* the heap of Fields maps: maps[i] is the content of map i
    entries,    \* the heap of Entry objects: entries[e].Data is a map index
    born,       \* born[e]: the field set entry e was created with (history)
    last,       \* the last chaining call: receiver, arguments, result (history)
    registry,   \* the Level Registry: module name -> minimum severity
    pc,         \* pc[t]: where caller t is in its logging call
    call,       \* call[t]: the arguments and locals of caller t's logging call
    mu,         \* Logger.mu: 0 when free, else the caller holding it
    pool,       \* the buffers lying in bufferPool
    checkedOut, \* the buffers taken from bufferPool and not put back
    out,        \* Logger.Out: the chunks the sink has received, in order
    stderr,     \* os.Stderr: the diagnostic reports, in order
    exits,      \* how many times Exit was invoked
    clock,      \* the number of logging calls started (also time.Now())
    sets,       \* the number of SetLevel calls made
    program,    \* which program runs: it never changes
    lockOrder   \* the calls that took the lock to write, in order (history)

chainVars == <<maps, entries, born, last>>
emitVars == <<registry, pc, call, mu, pool, checkedOut, out, stderr, exits, clock, sets,
              program, lockOrder>>
vars == <<maps, entries, born, last, registry, pc, call, mu, pool, checkedOut, out,
          stderr, exits, clock, sets, program, lockOrder>>

\* The record a chaining call returns: the new heap and the new Entry.
Ret(ms, es, e) == [maps |-> ms, entries |-> es, ret |-> e]

\* &Entry{Logger: logger, Data: data}: the other attributes are zero values.
EntryObj(data) == [Data |-> data, Time |-> 0, Level |-> 0, Message |-> "", Buffer |-> 0]

\* The field set of entry e in heap (ms, es).
FieldsOf(ms, es, e) == ms[es[e].Data]

(***************************************************************************)
(* Entry.WithFields: copies the receiver's map and then the argument map   *)
(* into a fresh map, and returns a fresh Entry that holds it.  f is the    *)
(* heap index of the argument map.                                         *)
(***************************************************************************)
WithFields_keepold(ms, es, e, f) ==
    LET data == CopyInto(CopyInto(EmptyFields, ms[f]), ms[es[e].Data])
        ms2 == Append(ms, data)
        es2 == Append(es, EntryObj(Len(ms2)))
    IN  Ret(ms2, es2, Len(es2))
WithFields(ms, es, e, f) ==
    LET data == CopyInto(CopyInto(EmptyFields, ms[es[e].Data]), ms[f])
        ms2 == Append(ms, data)
        es2 == Append(es, EntryObj(Len(ms2)))
    IN  Ret(ms2, es2, Len(es2))

\* Entry.WithField: WithFields(Fields{key: value}).
WithField_inplace(ms, es, e, key, value) ==
    Ret([ms EXCEPT ![es[e].Data] = Put(@, key, value)], es, e)
WithField(ms, es, e, key, value) ==
    WithFields(Append(ms, OneField(key, value)), es, e, Len(ms) + 1)

\* Entry.withStack / Entry.WithStack
withStack(ms, es, e, trace) == WithField(ms, es, e, StacktraceKey, trace)
WithStack(ms, es, e) == withStack(ms, es, e, StackHere("WithStack"))

\* Entry.WithModule
WithModule(ms, es, e, moduleName) == WithField(ms, es, e, ModuleNameKey, Str(moduleName))

(***************************************************************************)
(* Entry.WithError: the fragment built from the error, merged like         *)
(* WithFields.  ErrorFragment is the local map "fields" of either branch.  *)
(***************************************************************************)
ErrorFragment(ms, err) ==
    LET realErr == ErrObjs[err]
        f1 == Put(Put(EmptyFields, ErrorKey, ErrV(err)), StacktraceKey, Str(realErr.stack))
        f2 == IF realErr.Name # "" THEN Put(f1, ModuleNameKey, Str(realErr.Name)) ELSE f1
    IN  IF realErr.structured
        THEN CopyInto(f2, ms[realErr.Fields])
        ELSE Put(Put(EmptyFields, ErrorKey, ErrV(err)), StacktraceKey, StackHere("WithError"))
WithError(ms, es, e, err) ==
    WithFields(Append(ms, ErrorFragment(ms, err)), es, e, Len(ms) + 1)

(***************************************************************************)
(* Entry.With: the pairs of extras are inserted left to right; an odd      *)
(* trailing key is inserted with nil.  i counts from 0 as in the code.     *)
(***************************************************************************)
RECURSIVE WithPairs(_, _, _, _)
WithPairs(fields, extras, i, n) ==
    IF i < n
    THEN WithPairs(Put(fields, stringify(extras[i + 1]), extras[i + 2]), extras, i + 2, n)
    ELSE fields
WithArgs_droplast(key, value, extras) ==
    LET n == IF Len(extras) % 2 # 0 THEN Len(extras) - 1 ELSE Len(extras)
    IN  WithPairs(OneField(key, value), extras, 0, n)
WithArgs(key, value, extras) ==
    LET n == IF Len(extras) % 2 # 0 THEN Len(extras) - 1 ELSE Len(extras)
        paired == WithPairs(OneField(key, value), extras, 0, n)
    IN  IF n < Len(extras) THEN Put(paired, stringify(extras[n + 1]), Nil) ELSE paired
With(ms, es, e, key, value, extras) ==
    WithFields(Append(ms, WithArgs(key, value, extras)), es, e, Len(ms) + 1)


(***************************************************************************)
(* Severities, most severe first, and the Level Registry (Logger.level).   *)
(***************************************************************************)
PanicLevel == 0
FatalLevel == 1
ErrorLevel == 2
WarnLevel == 3
InfoLevel == 4
DebugLevel == 5
TraceLevel == 6
Levels == PanicLevel..TraceLevel
Wildcard == "*"

\* Logger.level(moduleName): the module's own level, else the wildcard's,
\* else the baseline.
level(reg, moduleName) ==
    IF moduleName \in DOMAIN reg THEN reg[moduleName]
    ELSE IF Wildcard \in DOMAIN reg THEN reg[Wildcard]
    ELSE InfoLevel

(***************************************************************************)
(* Entry.matchLevel on a field set: "fault" is the run-time panic of the   *)
(* type assertion name.(string) on a value that is no string.              *)
(***************************************************************************)
matchLevel(reg, data, lv) ==
    IF ModuleNameKey \in DOMAIN data /\ data[ModuleNameKey].kind # "string"
    THEN "fault"
    ELSE LET moduleName == IF ModuleNameKey \in DOMAIN data
                           THEN data[ModuleNameKey].s
                           ELSE DefaultModuleName
         IN  IF level(reg, moduleName) >= lv THEN "match" ELSE "reject"

(***************************************************************************)
(* Where a logging method goes after its gate.  Variant "" is the plain    *)
(* method (Trace .. Panic), "f" and "ln" are the formatted and line        *)
(* methods, which check the gate and then call the plain method.           *)
(***************************************************************************)
\* Tracef .. Panicf, Traceln .. Panicln
AfterOuterGate(lv, r) ==
    CASE r = "fault" -> "unwound"
      [] r = "match" -> "gate"
      [] OTHER -> IF lv = FatalLevel THEN "exit" ELSE "returned"
\* Trace .. Panic
AfterGate_exitfirst(lv, r) ==
    CASE r = "fault" -> "unwound"
      [] lv = FatalLevel -> "exit"
      [] r = "match" -> "hooks"
      [] OTHER -> IF lv = PanicLevel THEN "unwound" ELSE "returned"
AfterGate_always(lv, r) ==
    CASE r = "fault" -> "unwound"
      [] OTHER -> "hooks"
AfterGate(lv, r) ==
    CASE r = "fault" -> "unwound"
      [] r = "match" -> "hooks"
      [] OTHER -> IF lv = FatalLevel THEN "exit"
                  ELSE IF lv = PanicLevel THEN "unwound" ELSE "returned"
\* The plain method after entry.log returned (log did not panic).
AfterLog(lv) ==
    IF lv = FatalLevel THEN "exit"
    ELSE IF lv = PanicLevel THEN "unwound" ELSE "returned"

\* Entry.log, line 190: whether log panics with the entry.
logPanics(lv) == lv <= PanicLevel
(***************************************************************************)
(* The state of the logger before any logging call.                        *)
(***************************************************************************)
Callers == 1..NumCallers

NoLog ==
    [id |-> 0, e |-> 0, lv |-> 0, variant |-> "", gates |-> 0, reg |-> <<>>,
     data |-> EmptyFields, decision |-> "none", entry |-> EntryObj(0), buffer |-> 0,
     bytes |-> EmptyFields, hookErr |-> FALSE, fmtErr |-> FALSE, writeErr |-> FALSE,
     panicking |-> FALSE, payload |-> "none", tr |-> <<>>]

NoLogging ==
    /\ registry = [m \in {Wildcard} |-> InfoLevel]
    /\ pc = [t \in Callers |-> "idle"]
    /\ call = [t \in Callers |-> NoLog]
    /\ mu = 0
    /\ pool = {}
    /\ checkedOut = {}
    /\ out = <<>>
    /\ stderr = <<>>
    /\ exits = 0
    /\ clock = 0
    /\ sets = 0
    /\ program = "sequential"
    /\ lockOrder = <<>>

(***************************************************************************)
(* The chaining calls as actions.  A caller holds every Entry made so far  *)
(* and may call any chaining method on any of them.                        *)
(***************************************************************************)
NoCall ==
    [op |-> "none", recv |-> 0, ret |-> 0, f |-> 0, recvData |-> EmptyFields,
     argData |-> EmptyFields, key |-> "", value |-> Nil, extras |-> <<>>, err |-> 0]

\* Inputs of the chaining calls.
UserKeys == {"a", ModuleNameKey}
UserVals == {Str("foo"), IntV(7)}
ModuleNames == {"foo", "bar"}
Literals == {[k \in {"a"} |-> Str("new")], [k \in {"a", "b"} |-> IntV(12)]}
ChainExtras == {<<>>, <<IntV(7)>>, <<Str("a"), Str("x")>>}

Receivers == 1..Len(entries)

\* The heap after a call that returned r, and the history of the call.
Returned(r, chained) ==
    /\ maps' = r.maps
    /\ entries' = r.entries
    /\ born' = IF Len(r.entries) > Len(entries)
               THEN Append(born, [parent |-> chained.recv, op |-> chained.op,
                                  fields |-> FieldsOf(r.maps, r.entries, r.ret)])
               ELSE born
    /\ last' = [chained EXCEPT !.ret = r.ret]
    /\ UNCHANGED emitVars

CallOn(e, op) ==
    [NoCall EXCEPT !.op = op, !.recv = e, !.recvData = FieldsOf(maps, entries, e)]

\* NewEntry(logger): a fresh Entry with a fresh empty map.
NewEntry(ms, es) ==
    LET ms2 == Append(ms, EmptyFields)
        es2 == Append(es, EntryObj(Len(ms2)))
    IN  Ret(ms2, es2, Len(es2))

NewEntryCall ==
    /\ Len(entries) < MaxEntries
    /\ Returned(NewEntry(maps, entries), [NoCall EXCEPT !.op = "NewEntry"])

WithFieldsCall ==
    /\ Len(entries) < MaxEntries
    /\ \E e \in Receivers :
        \/ \E f \in 1..Len(maps) :
              Returned(WithFields(maps, entries, e, f),
                       [CallOn(e, "WithFields") EXCEPT !.f = f, !.argData = maps[f]])
        \/ \E B \in Literals :
              Returned(WithFields(Append(maps, B), entries, e, Len(maps) + 1),
                       [CallOn(e, "WithFields") EXCEPT !.f = Len(maps) + 1, !.argData = B])

WithFieldCall ==
    /\ Len(entries) < MaxEntries
    /\ \E e \in Receivers, key \in UserKeys, value \in UserVals :
          Returned(WithField(maps, entries, e, key, value),
                   [CallOn(e, "WithField") EXCEPT !.key = key, !.value = value])

WithCall(Extras) ==
    /\ Len(entries) < MaxEntries
    /\ \E e \in Receivers, key \in UserKeys, value \in UserVals, extras \in Extras :
          Returned(With(maps, entries, e, key, value, extras),
                   [CallOn(e, "With") EXCEPT !.key = key, !.value = value,
                                             !.extras = extras, !.f = Len(maps) + 1])

WithModuleCall ==
    /\ Len(entries) < MaxEntries
    /\ \E e \in Receivers, name \in ModuleNames :
          Returned(WithModule(maps, entries, e, name),
                   [CallOn(e, "WithModule") EXCEPT !.key = ModuleNameKey, !.value = Str(name)])

WithStackCall ==
    /\ Len(entries) < MaxEntries
    /\ \E e \in Receivers :
          Returned(WithStack(maps, entries, e),
                   [CallOn(e, "WithStack") EXCEPT !.key = StacktraceKey])

WithErrorCall ==
    /\ Len(entries) < MaxEntries
    /\ \E e \in Receivers, err \in ErrIds :
          Returned(WithError(maps, entries, e, err),
                   [CallOn(e, "WithError") EXCEPT !.err = err, !.f = Len(maps) + 1])

\* The heap after NewEntry(logger): the error objects' maps and one Entry.
ChainInit ==
    /\ maps = Append(ErrFields, EmptyFields)
    /\ entries = <<EntryObj(3)>>
    /\ born = <<[parent |-> 0, op |-> "NewEntry", fields |-> EmptyFields]>>
    /\ last = NoCall
    /\ NoLogging

ChainNext ==
    \/ NewEntryCall
    \/ WithFieldsCall
    \/ WithFieldCall
    \/ WithCall(ChainExtras)
    \/ WithModuleCall
    \/ WithStackCall
    \/ WithErrorCall

ChainSpec == ChainInit /\ [][ChainNext]_vars

(***************************************************************************)
(* Entry.With as a function of its arguments: one call on a receiver whose *)
(* field set is drawn by Init, over every trailing sequence up to          *)
(* MaxExtras values.                                                       *)
(***************************************************************************)
ExtraVals == {Str("a"), Str("7"), IntV(7), Nil}
RECURSIVE SeqsUpTo(_, _)
SeqsUpTo(S, n) ==
    IF n = 0 THEN {<<>>}
    ELSE LET shorter == SeqsUpTo(S, n - 1)
         IN  shorter \cup {Append(q, x) : q \in {r \in shorter : Len(r) = n - 1}, x \in S}
AllExtras == SeqsUpTo(ExtraVals, MaxExtras)
ReceiverData == {EmptyFields, [k \in {"a", "7", "z"} |-> Str("old")]}

WithInit ==
    /\ \E d \in ReceiverData :
          /\ maps = Append(ErrFields, d)
          /\ born = <<[parent |-> 0, op |-> "NewEntry", fields |-> d]>>
    /\ entries = <<EntryObj(3)>>
    /\ last = NoCall
    /\ NoLogging

WithOnce == Len(entries) = 1 /\ WithCall(AllExtras)

WithSpec == WithInit /\ [][WithOnce]_vars

(***************************************************************************)
(* The logging calls.  Each caller runs one logging method at a time; the  *)
(* steps of a call are the steps of the method and of Entry.log that read  *)
(* or write state other callers can see.                                   *)
(***************************************************************************)
Variants == {"", "f", "ln"}
Methods == [lv : Levels, variant : Variants]
\* The programs explored: one goroutine that uses every method on every
\* Entry, or all callers logging concurrently with Info, Fatal and Panic on
\* the Entry tagged with module "foo".
Programs == {"sequential", "concurrent"}
CallersOf(prog) == IF prog = "sequential" THEN {1} ELSE Callers
MethodsOf(prog) ==
    IF prog = "sequential" THEN Methods
    ELSE {m \in Methods : m.variant = "" /\ m.lv \in {InfoLevel, FatalLevel, PanicLevel}}
EntriesOf(prog) == IF prog = "sequential" THEN 1..Len(entries) ELSE {2}
\* The registries a program starts with, and the levels it sets later.
Registries ==
    { [m \in {Wildcard, "foo"} |-> IF m = "foo" THEN DebugLevel ELSE WarnLevel],
      [m \in {} |-> InfoLevel] }
SetChoices == {<<Wildcard, PanicLevel>>, <<"foo", TraceLevel>>}
\* What Hooks.Fire may do: nothing, add a field to the entry's map, fail.
HookOutcomes == {[mutate |-> FALSE, err |-> FALSE], [mutate |-> TRUE, err |-> FALSE],
                 [mutate |-> FALSE, err |-> TRUE]}

Resting == {"idle", "returned", "unwound"}
\* The process runs: Exit was not invoked and the runtime did not abort it.
Running == exits = 0 /\ \A u \in Callers : pc[u] # "crashed"
At(t, p) == Running /\ pc[t] = p
Goto(t, p) == pc' = [pc EXCEPT ![t] = p]
Did(c, ev) == [c EXCEPT !.tr = Append(@, ev)]

\* Logger.mu.Lock() / Unlock()
Lock_noguard(t) == mu' = t
Lock(t) == mu = 0 /\ mu' = t
Unlock_keep(t) == mu' = mu
Unlock(t) == mu' = 0

\* Logger.SetLevel / SetModuleLevel.  The sequential program changes
\* levels while its goroutine logs; the concurrent program sets its levels
\* before it starts its callers.  Only a gate check reads the registry, so
\* the model lets a level change when a caller is about to check its gate.
SetLevel ==
    /\ Running /\ sets < MaxSets
    /\ program = "sequential"
    /\ \E t \in Callers : pc[t] \in {"gate_outer", "gate"}
    /\ \E ch \in SetChoices :
          registry' = [m \in DOMAIN registry \cup {ch[1]} |->
                          IF m = ch[1] THEN ch[2] ELSE registry[m]]
    /\ sets' = sets + 1
    /\ UNCHANGED <<chainVars, pc, call, mu, pool, checkedOut, out, stderr, exits, clock,
                   program, lockOrder>>

\* A caller calls a logging method on an Entry it holds.
Call(t) ==
    /\ Running /\ pc[t] \in Resting /\ clock < MaxCalls
    /\ t \in CallersOf(program)
    /\ \E e \in EntriesOf(program), m \in MethodsOf(program) :
          /\ call' = [call EXCEPT ![t] =
                        [NoLog EXCEPT !.id = clock + 1, !.e = e, !.lv = m.lv,
                                      !.variant = m.variant]]
          /\ Goto(t, IF m.variant = "" THEN "gate" ELSE "gate_outer")
    /\ clock' = clock + 1
    /\ UNCHANGED <<chainVars, registry, mu, pool, checkedOut, out, stderr, exits, sets,
                   program, lockOrder>>

\* The record of a gate check: what the registry and the fields were.
Gated(c, r) ==
    [c EXCEPT !.gates = @ + 1, !.reg = registry, !.data = FieldsOf(maps, entries, c.e),
              !.decision = r,
              !.payload = IF r = "fault" THEN "typeassert" ELSE @]

\* Tracef .. Panicf, Traceln .. Panicln: the gate of the outer method.
OuterGate(t) ==
    /\ At(t, "gate_outer")
    /\ LET c == call[t]
           r == matchLevel(registry, FieldsOf(maps, entries, c.e), c.lv)
       IN  /\ call' = [call EXCEPT ![t] = Gated(c, r)]
           /\ Goto(t, AfterOuterGate(c.lv, r))
    /\ UNCHANGED <<chainVars, registry, mu, pool, checkedOut, out, stderr, exits, clock, sets,
                   program, lockOrder>>

\* Trace .. Panic: the gate, and on a match the call of entry.log, which
\* copies the Entry and stamps the copy (lines 157-161).
Gate_pointer(t) ==
    /\ At(t, "gate")
    /\ LET c == call[t]
           r == matchLevel(registry, FieldsOf(maps, entries, c.e), c.lv)
           next == AfterGate(c.lv, r)
           g == Gated(c, r)
       IN  /\ call' = [call EXCEPT ![t] =
                  IF next = "hooks"
                  THEN Did([g EXCEPT !.entry = [entries[c.e] EXCEPT
                                         !.Time = clock, !.Level = c.lv, !.Message = "msg"]],
                           "stamp")
                  ELSE IF next = "unwound" /\ r # "fault"
                       THEN [g EXCEPT !.payload = "message"]
                       ELSE g]
           /\ Goto(t, next)
    /\ entries' = IF call'[t].entry.Data # 0
                  THEN [entries EXCEPT ![call[t].e] = call'[t].entry]
                  ELSE entries
    /\ UNCHANGED <<maps, born, last, registry, mu, pool, checkedOut, out, stderr, exits, clock,
                   sets, program, lockOrder>>
Gate(t) ==
    /\ At(t, "gate")
    /\ LET c == call[t]
           r == matchLevel(registry, FieldsOf(maps, entries, c.e), c.lv)
           next == AfterGate(c.lv, r)
           g == Gated(c, r)
       IN  /\ call' = [call EXCEPT ![t] =
                  IF next = "hooks"
                  THEN Did([g EXCEPT !.entry = [entries[c.e] EXCEPT
                                         !.Time = clock, !.Level = c.lv, !.Message = "msg"]],
                           "stamp")
                  ELSE IF next = "unwound" /\ r # "fault"
                       THEN [g EXCEPT !.payload = "message"]
                       ELSE g]
           /\ Goto(t, next)
    /\ UNCHANGED <<chainVars, registry, mu, pool, checkedOut, out, stderr, exits, clock, sets,
                   program, lockOrder>>

\* Entry.log, line 163: Hooks.Fire(level, &entry).
FireHooks(t) ==
    /\ At(t, "hooks")
    /\ \E h \in HookOutcomes :
          /\ maps' = IF h.mutate
                     THEN [maps EXCEPT ![call[t].entry.Data] = Put(@, "hook", Str("added"))]
                     ELSE maps
          /\ call' = [call EXCEPT ![t] = Did([@ EXCEPT !.hookErr = h.err], "hooks")]
          /\ Goto(t, IF h.err THEN "hook_lock" ELSE "get")
    /\ UNCHANGED <<entries, born, last, registry, mu, pool, checkedOut, out, stderr, exits,
                   clock, sets, program, lockOrder>>

\* Entry.log copies the Entry but not its Data map (line 156: the receiver
\* is a value, the map a reference), so a hook that writes a field writes
\* the map every emission of the record reads.  Such a write, unsynchronized
\* with another goroutine that is reading the same map in its gate or its
\* Formatter, or writing it in its hooks, is a data race: the write may land
\* (FireHooks), or the Go runtime may detect the concurrent map access and
\* abort the process with a fatal error.
Racing(t, u) ==
    /\ u # t
    /\ \/ pc[u] = "gate" /\ entries[call[u].e].Data = call[t].entry.Data
       \/ pc[u] \in {"hooks", "format"} /\ call[u].entry.Data = call[t].entry.Data
HookRace(t) ==
    /\ At(t, "hooks")
    /\ \E u \in Callers : Racing(t, u)
    /\ call' = [call EXCEPT ![t] = Did(@, "crash")]
    /\ Goto(t, "crashed")
    /\ UNCHANGED <<chainVars, registry, mu, pool, checkedOut, out, stderr, exits, clock, sets,
                   program, lockOrder>>

\* Entry.log, line 164
HookLock(t) ==
    /\ At(t, "hook_lock")
    /\ Lock(t)
    /\ Goto(t, "hook_report")
    /\ UNCHANGED <<chainVars, registry, call, pool, checkedOut, out, stderr, exits, clock,
                   sets, program, lockOrder>>

\* Entry.log, lines 165-166
HookReport_abort(t) ==
    /\ At(t, "hook_report")
    /\ stderr' = Append(stderr, [by |-> call[t].id, what |-> "Failed to fire hook"])
    /\ Unlock(t)
    /\ call' = [call EXCEPT ![t] = Did(@, "hook_report")]
    /\ Goto(t, "returned")
    /\ UNCHANGED <<chainVars, registry, pool, checkedOut, out, exits, clock, sets, program,
                   lockOrder>>
HookReport(t) ==
    /\ At(t, "hook_report")
    /\ stderr' = Append(stderr, [by |-> call[t].id, what |-> "Failed to fire hook"])
    /\ Unlock(t)
    /\ call' = [call EXCEPT ![t] = Did(@, "hook_report")]
    /\ Goto(t, "get")
    /\ UNCHANGED <<chainVars, registry, pool, checkedOut, out, exits, clock, sets, program,
                   lockOrder>>

\* Entry.log, lines 168-171: bufferPool.Get() hands out a pooled buffer, or
\* a new one when the pool is empty; Put is deferred.
FreshBuffer == Cardinality(pool \cup checkedOut) + 1
GetBuffer(t) ==
    /\ At(t, "get")
    /\ \E b \in IF pool = {} THEN {FreshBuffer} ELSE pool :
          /\ pool' = pool \ {b}
          /\ checkedOut' = checkedOut \cup {b}
          /\ call' = [call EXCEPT ![t] = Did([@ EXCEPT !.buffer = b, !.entry.Buffer = b], "get")]
    /\ Goto(t, "format")
    /\ UNCHANGED <<chainVars, registry, mu, out, stderr, exits, clock, sets, program, lockOrder>>

\* Entry.log, lines 172-173: Formatter.Format(&entry) reads the entry's
\* fields and returns bytes or an error; then the buffer is detached.
Format_putearly(t) ==
    /\ At(t, "format")
    /\ \E ok \in BOOLEAN :
          /\ call' = [call EXCEPT ![t] =
                        Did(Did([@ EXCEPT !.fmtErr = ~ok, !.entry.Buffer = 0,
                                          !.bytes = IF ok THEN maps[call[t].entry.Data]
                                                    ELSE EmptyFields],
                                "format"), "detach")]
          /\ Goto(t, IF ok THEN "write_lock" ELSE "fmt_lock")
    /\ pool' = pool \cup {call[t].buffer}
    /\ checkedOut' = checkedOut \ {call[t].buffer}
    /\ UNCHANGED <<chainVars, registry, mu, out, stderr, exits, clock, sets, program,
                   lockOrder>>
Format_writeonerror(t) ==
    /\ At(t, "format")
    /\ \E ok \in BOOLEAN :
          /\ call' = [call EXCEPT ![t] =
                        Did(Did([@ EXCEPT !.fmtErr = ~ok, !.entry.Buffer = 0,
                                          !.bytes = IF ok THEN maps[call[t].entry.Data]
                                                    ELSE EmptyFields],
                                "format"), "detach")]
          /\ Goto(t, "write_lock")
    /\ UNCHANGED <<chainVars, registry, mu, pool, checkedOut, out, stderr, exits, clock, sets,
                   program, lockOrder>>
Format(t) ==
    /\ At(t, "format")
    /\ \E ok \in BOOLEAN :
          /\ call' = [call EXCEPT ![t] =
                        Did(Did([@ EXCEPT !.fmtErr = ~ok, !.entry.Buffer = 0,
                                          !.bytes = IF ok THEN maps[call[t].entry.Data]
                                                    ELSE EmptyFields],
                                "format"), "detach")]
          /\ Goto(t, IF ok THEN "write_lock" ELSE "fmt_lock")
    /\ UNCHANGED <<chainVars, registry, mu, pool, checkedOut, out, stderr, exits, clock, sets,
                   program, lockOrder>>

\* Entry.log, line 175
FmtLock(t) ==
    /\ At(t, "fmt_lock")
    /\ Lock(t)
    /\ Goto(t, "fmt_report")
    /\ UNCHANGED <<chainVars, registry, call, pool, checkedOut, out, stderr, exits, clock,
                   sets, program, lockOrder>>

\* The end of log's body, line 190: panic(&entry) for the Panic level.
Checked(c, ev) ==
    LET d == Did(c, ev)
    IN  IF logPanics(c.lv)
        THEN Did([d EXCEPT !.panicking = TRUE, !.payload = "entry"], "panic")
        ELSE d

\* Entry.log, lines 176-177, then line 190
FmtReport(t) ==
    /\ At(t, "fmt_report")
    /\ stderr' = Append(stderr, [by |-> call[t].id, what |-> "Failed to obtain reader"])
    /\ Unlock(t)
    /\ call' = [call EXCEPT ![t] = Checked(@, "fmt_report")]
    /\ Goto(t, "put")
    /\ UNCHANGED <<chainVars, registry, pool, checkedOut, out, exits, clock, sets, program,
                   lockOrder>>

\* Entry.log, line 179
WriteLock(t) ==
    /\ At(t, "write_lock")
    /\ Lock(t)
    /\ call' = [call EXCEPT ![t] = Did(@, "lock")]
    /\ lockOrder' = Append(lockOrder, call[t].id)
    /\ Goto(t, "write")
    /\ UNCHANGED <<chainVars, registry, pool, checkedOut, out, stderr, exits, clock, sets, program>>

\* Entry.log, line 180: Out.Write(serialized) takes the bytes in two parts.
WriteFirst(t) ==
    /\ At(t, "write")
    /\ out' = Append(out, [id |-> call[t].id, part |-> 1])
    /\ call' = [call EXCEPT ![t] = Did(@, "write")]
    /\ Goto(t, "write_rest")
    /\ UNCHANGED <<chainVars, registry, mu, pool, checkedOut, stderr, exits, clock, sets,
                   program, lockOrder>>

\* Write either takes the rest of the bytes or returns an error.
WriteRest(t) ==
    /\ At(t, "write_rest")
    /\ \E ok \in BOOLEAN :
          /\ out' = IF ok THEN Append(out, [id |-> call[t].id, part |-> 2]) ELSE out
          /\ call' = [call EXCEPT ![t] = Did([@ EXCEPT !.writeErr = ~ok], "written")]
          /\ Goto(t, IF ok THEN "unlock" ELSE "write_report")
    /\ UNCHANGED <<chainVars, registry, mu, pool, checkedOut, stderr, exits, clock, sets,
                   program, lockOrder>>

\* Entry.log, lines 181-183
WriteReport_return(t) ==
    /\ At(t, "write_report")
    /\ stderr' = Append(stderr, [by |-> call[t].id, what |-> "Failed to write to log"])
    /\ call' = [call EXCEPT ![t] = Checked(@, "write_report")]
    /\ Goto(t, "put")
    /\ UNCHANGED <<chainVars, registry, mu, pool, checkedOut, out, exits, clock, sets,
                   program, lockOrder>>
WriteReport(t) ==
    /\ At(t, "write_report")
    /\ stderr' = Append(stderr, [by |-> call[t].id, what |-> "Failed to write to log"])
    /\ call' = [call EXCEPT ![t] = Did(@, "write_report")]
    /\ Goto(t, "unlock")
    /\ UNCHANGED <<chainVars, registry, mu, pool, checkedOut, out, exits, clock, sets,
                   program, lockOrder>>

\* Entry.log, line 184, then line 190
WriteUnlock(t) ==
    /\ At(t, "unlock")
    /\ Unlock(t)
    /\ call' = [call EXCEPT ![t] = Checked(@, "unlock")]
    /\ Goto(t, "put")
    /\ UNCHANGED <<chainVars, registry, pool, checkedOut, out, stderr, exits, clock, sets,
                   program, lockOrder>>

\* The deferred bufferPool.Put(buffer) of line 170, run when log returns
\* or unwinds; then control is back in the logging method, or unwinds on.
PutBuffer_leakonpanic(t) ==
    /\ At(t, "put")
    /\ pool' = IF call[t].panicking THEN pool ELSE pool \cup {call[t].buffer}
    /\ checkedOut' = IF call[t].panicking THEN checkedOut ELSE checkedOut \ {call[t].buffer}
    /\ call' = [call EXCEPT ![t] = Did(@, "put")]
    /\ Goto(t, IF call[t].panicking THEN "unwound" ELSE AfterLog(call[t].lv))
    /\ UNCHANGED <<chainVars, registry, mu, out, stderr, exits, clock, sets, program, lockOrder>>
PutBuffer_again(t) ==
    /\ At(t, "put")
    /\ pool' = pool \cup {call[t].buffer}
    /\ checkedOut' = checkedOut \ {call[t].buffer}
    /\ call' = [call EXCEPT ![t] = Did(@, "put")]
    /\ Goto(t, IF call[t].variant # "" /\ \A i \in DOMAIN call[t].tr : call[t].tr[i] # "put"
               THEN "hooks"
               ELSE IF call[t].panicking THEN "unwound" ELSE AfterLog(call[t].lv))
    /\ UNCHANGED <<chainVars, registry, mu, out, stderr, exits, clock, sets, program, lockOrder>>
PutBuffer(t) ==
    /\ At(t, "put")
    /\ pool' = pool \cup {call[t].buffer}
    /\ checkedOut' = checkedOut \ {call[t].buffer}
    /\ call' = [call EXCEPT ![t] = Did(@, "put")]
    /\ Goto(t, IF call[t].panicking THEN "unwound" ELSE AfterLog(call[t].lv))
    /\ UNCHANGED <<chainVars, registry, mu, out, stderr, exits, clock, sets, program, lockOrder>>

\* Exit(1): the process terminates; no caller takes a step after it.
Exit(t) ==
    /\ At(t, "exit")
    /\ exits' = exits + 1
    /\ call' = [call EXCEPT ![t] = Did(@, "exit")]
    /\ Goto(t, "exited")
    /\ UNCHANGED <<chainVars, registry, mu, pool, checkedOut, out, stderr, clock, sets,
                   program, lockOrder>>

(***************************************************************************)
(* The program: three Entries built by chaining (one untagged, one tagged  *)
(* module "foo", one with a number under the module key), a registry, and  *)
(* callers that log through them concurrently.                             *)
(***************************************************************************)
Tagged == WithModule(Append(ErrFields, EmptyFields), <<EntryObj(3)>>, 1, "foo")
Built == WithField(Tagged.maps, Tagged.entries, 1, ModuleNameKey, IntV(7))

Init ==
    /\ maps = Built.maps
    /\ entries = Built.entries
    /\ born = [e \in 1..Len(Built.entries) |->
                  [parent |-> IF e = 1 THEN 0 ELSE 1,
                   op |-> IF e = 1 THEN "NewEntry" ELSE IF e = 2 THEN "WithModule" ELSE "WithField",
                   fields |-> FieldsOf(Built.maps, Built.entries, e)]]
    /\ last = NoCall
    /\ registry \in Registries
    /\ program \in Programs
    /\ pc = [t \in Callers |-> "idle"]
    /\ call = [t \in Callers |-> NoLog]
    /\ mu = 0
    /\ pool = {}
    /\ checkedOut = {}
    /\ out = <<>>
    /\ stderr = <<>>
    /\ exits = 0
    /\ clock = 0
    /\ sets = 0
    /\ lockOrder = <<>>

Next ==
    \/ SetLevel
    \/ \E t \in Callers :
          \/ Call(t)
          \/ OuterGate(t)
          \/ Gate(t)
          \/ FireHooks(t)
          \/ HookRace(t)
          \/ HookLock(t)
          \/ HookReport(t)
          \/ GetBuffer(t)
          \/ Format(t)
          \/ FmtLock(t)
          \/ FmtReport(t)
          \/ WriteLock(t)
          \/ WriteFirst(t)
          \/ WriteRest(t)
          \/ WriteReport(t)
          \/ WriteUnlock(t)
          \/ PutBuffer(t)
          \/ Exit(t)

Spec == Init /\ [][Next]_vars

(***************************************************************************)
(* The concurrent program under a fair scheduler: a goroutine that can     *)
(* take a step of its logging call eventually takes one.  Hooks.Fire,      *)
(* Format and Write return, so each of their steps is a step the caller    *)
(* can take; a caller waiting for the lock can take its step when the lock *)
(* is free.                                                                *)
(***************************************************************************)
Step(t) ==
    \/ Gate(t)
    \/ FireHooks(t)
    \/ HookLock(t)
    \/ HookReport(t)
    \/ GetBuffer(t)
    \/ Format(t)
    \/ FmtLock(t)
    \/ FmtReport(t)
    \/ WriteLock(t)
    \/ WriteFirst(t)
    \/ WriteRest(t)
    \/ WriteReport(t)
    \/ WriteUnlock(t)
    \/ PutBuffer(t)
    \/ Exit(t)
Fairness == \A t \in Callers : WF_vars(Step(t))
\* The concurrent callers log through the Entry tagged "foo", which both
\* registries let through at the levels used; one registry is explored.
LiveInit == Init /\ program = "concurrent" /\ Wildcard \in DOMAIN registry
LiveNext == \E t \in Callers : Call(t) \/ HookRace(t) \/ Step(t)
LiveSpec == LiveInit /\ [][LiveNext]_vars /\ Fairness
(***************************************************************************)
(* Claims about the chaining operations.                                   *)
(***************************************************************************)
\* R is A's entries overridden by B's entries on key collision.
Overridden(A, B, R) ==
    /\ DOMAIN R = DOMAIN A \cup DOMAIN B
    /\ \A k \in DOMAIN B : R[k] = B[k]
    /\ \A k \in DOMAIN A \ DOMAIN B : R[k] = A[k]

\* C1: R.WithFields(B) returns a new record whose field set is R's entries
\* overridden by B's entries on key collision, and leaves R's field set and
\* B as they were before the call.
C1_WithFieldsOverrides ==
    last.op = "WithFields" =>
        /\ last.ret # last.recv
        /\ entries[last.ret].Data \notin {entries[last.recv].Data, last.f}
        /\ Overridden(last.recvData, last.argData, FieldsOf(maps, entries, last.ret))
        /\ FieldsOf(maps, entries, last.recv) = last.recvData
        /\ maps[last.f] = last.argData

\* A WithFields call whose argument collides with the receiver on a key
\* that holds another value.
C1_Witness ==
    /\ last.op = "WithFields"
    /\ \E k \in DOMAIN last.recvData \cap DOMAIN last.argData :
          last.recvData[k] # last.argData[k]
    /\ DOMAIN last.recvData \ DOMAIN last.argData # {}

\* C2: whatever chaining calls are made, in any order and on any record,
\* every record keeps the field set it was created with (so the parent of a
\* chain is unchanged and a field added to one derived record appears in no
\* other record), no two records share a map, and the field maps carried by
\* the structured errors are unchanged.
C2_RecordsIndependent ==
    /\ \A e \in 1..Len(entries) : FieldsOf(maps, entries, e) = born[e].fields
    /\ \A e1, e2 \in 1..Len(entries) : e1 # e2 => entries[e1].Data # entries[e2].Data
    /\ \A e \in 1..Len(entries), i \in ErrIds : entries[e].Data # ErrObjs[i].Fields
    /\ \A i \in 1..Len(ErrFields) : maps[i] = ErrFields[i]

\* Two records derived from the same parent by WithError with two different
\* structured errors, each holding what its own error carries.
C2_Witness ==
    \E d1, d2 \in 1..Len(entries) :
        /\ d1 # d2
        /\ born[d1].parent = 1 /\ born[d2].parent = 1
        /\ born[d1].op = "WithError" /\ born[d2].op = "WithError"
        /\ FieldsOf(maps, entries, d1)[ErrorKey] = ErrV(1)
        /\ FieldsOf(maps, entries, d2)[StacktraceKey] = Str("stack@err2")
        /\ FieldsOf(maps, entries, d1)["path"] # FieldsOf(maps, entries, d2)["path"]
        /\ FieldsOf(maps, entries, 1) = EmptyFields

\* The pairs With is given, in order: key/value, each consecutive pair of
\* extras with its key in display-string form, and an unpaired last key
\* with nil.
WithItems(key, value, extras) ==
    [j \in 1..(1 + (Len(extras) + 1) \div 2) |->
        IF j = 1 THEN <<key, value>>
        ELSE LET kv == extras[2 * j - 3]
                 ks == IF kv.kind = "string" THEN kv.s ELSE Sprintv(kv)
             IN  IF 2 * j - 2 <= Len(extras) THEN <<ks, extras[2 * j - 2]>> ELSE <<ks, Nil>>]
\* M holds, for every key of the items, the value of its last occurrence.
BuiltLeftToRight(items, M) ==
    /\ DOMAIN M = {items[j][1] : j \in DOMAIN items}
    /\ \A j \in DOMAIN items :
          (\A j2 \in DOMAIN items : j2 > j => items[j2][1] # items[j][1])
              => M[items[j][1]] = items[j][2]

\* C8: R.With(k, v, extras...) returns a record (it never fails) and equals
\* R.WithFields(M), M built left to right from k=v and the consecutive
\* pairs of extras, a non-string key replaced by its display string, a
\* later occurrence of a key replacing an earlier one, and the final
\* unpaired key of an odd-length extras mapped to nil.
C8_WithBuildsPairs ==
    last.op = "With" =>
        /\ last.ret \in 1..Len(entries) /\ last.ret # last.recv
        /\ BuiltLeftToRight(WithItems(last.key, last.value, last.extras), maps[last.f])
        /\ Overridden(last.recvData, maps[last.f], FieldsOf(maps, entries, last.ret))
        /\ FieldsOf(maps, entries, last.recv) = last.recvData

\* With("a", v, 7, x, "7"): an odd-length extras whose unpaired last key
\* is the display string of an earlier non-string key.
C8_Witness ==
    /\ last.op = "With"
    /\ Len(last.extras) = 3
    /\ last.extras[1] = IntV(7) /\ last.extras[3] = Str("7")
    /\ last.extras[2] # Nil
    /\ FieldsOf(maps, entries, last.ret)["7"] = Nil
    /\ "z" \in DOMAIN last.recvData
    /\ FieldsOf(maps, entries, last.ret)["z"] = Str("old")

\* C9: the fragment WithError builds from a structured error holds the
\* error under the error key, the error's own stack trace under the
\* stack-trace key and its module name (only if non-empty) under the
\* module-name key, and no field attached to the error overwrites them.
C9_ReservedKeysAuthoritative ==
    (last.op = "WithError" /\ ErrObjs[last.err].structured) =>
        LET realErr == ErrObjs[last.err]
            fragment == maps[last.f]
        IN  /\ fragment[ErrorKey] = ErrV(last.err)
            /\ fragment[StacktraceKey] = Str(realErr.stack)
            /\ realErr.Name # "" => fragment[ModuleNameKey] = Str(realErr.Name)
            /\ \A k \in DOMAIN ErrFields[realErr.Fields] \ {ErrorKey, StacktraceKey, ModuleNameKey} :
                  fragment[k] = ErrFields[realErr.Fields][k]

(***************************************************************************)
(* Claims about the logging calls.                                         *)
(***************************************************************************)
HasEv(c, ev) == \E i \in DOMAIN c.tr : c.tr[i] = ev
Before(c, ev1, ev2) == \E i, j \in DOMAIN c.tr : i < j /\ c.tr[i] = ev1 /\ c.tr[j] = ev2
\* The call of caller t is past its gate checks.
Decided(t) == call[t].gates > 0 /\ pc[t] \notin {"gate_outer", "gate"}
\* The call was emitted: Entry.log ran for it.
Emitted(c) == HasEv(c, "stamp")
\* Both parts of the call's bytes are in the sink, one after the other.
WroteAll(c) ==
    \E i \in DOMAIN out :
        /\ i + 1 \in DOMAIN out
        /\ out[i] = [id |-> c.id, part |-> 1]
        /\ out[i + 1] = [id |-> c.id, part |-> 2]
\* The module a field set names, as the value under the module-name key,
\* and the minimum severity the registry has for it.
EffectiveModule(data) ==
    IF ModuleNameKey \in DOMAIN data THEN data[ModuleNameKey] ELSE Str(DefaultModuleName)
RegistryMinimum(reg, module) == level(reg, Sprintv(module))
AtLeastAsSevere(lv, min) == lv <= min

\* C3: a logging call at severity L is emitted if and only if L is at least
\* as severe as the minimum severity the registry returns for the record's
\* effective module (the value of the module-name field, else the default
\* module name).
C3_EmittedIffSevereEnough ==
    \A t \in Callers :
        Decided(t) =>
            (Emitted(call[t]) <=>
                AtLeastAsSevere(call[t].lv,
                                RegistryMinimum(call[t].reg, EffectiveModule(call[t].data))))

\* The same statement for the records whose module-name field, if any,
\* holds a string.
C3_HoldsForStringModules ==
    \A t \in Callers :
        (Decided(t) /\ EffectiveModule(call[t].data).kind = "string") =>
            (Emitted(call[t]) <=>
                AtLeastAsSevere(call[t].lv,
                                RegistryMinimum(call[t].reg, EffectiveModule(call[t].data))))

\* C4 as stated: when the gate rejects a call, the call is a complete
\* no-op, whatever its method and severity: no hook, no buffer, no write
\* and no process exit or unwind.
C4_RejectedIsNoOp ==
    \A t \in Callers :
        call[t].decision = "reject" =>
            /\ call[t].tr = <<>>
            /\ pc[t] \in {"returned", "exit"}
            /\ exits = 0

\* C4 as amended: when the gate rejects a call, no hook fires, no buffer is
\* taken and nothing is written for it; for the severities Trace to Error
\* the call returns with no effect at all, while a rejected Fatal, Fatalf or
\* Fatalln call still goes on to Exit.
C4_RejectedOnlyExits ==
    \A t \in Callers :
        call[t].decision = "reject" =>
            /\ ~HasEv(call[t], "stamp") /\ ~HasEv(call[t], "hooks")
            /\ ~HasEv(call[t], "get") /\ call[t].buffer = 0
            /\ ~HasEv(call[t], "write")
            /\ \A i \in DOMAIN out : out[i].id # call[t].id
            /\ \A i \in DOMAIN stderr : stderr[i].by # call[t].id
            /\ call[t].lv \in ErrorLevel..TraceLevel =>
                  (call[t].tr = <<>> /\ pc[t] = "returned")
            /\ call[t].lv = FatalLevel =>
                  \/ call[t].tr = <<>> /\ pc[t] = "exit"
                  \/ call[t].tr = <<"exit">> /\ pc[t] = "exited" /\ exits = 1

\* A rejected Fatalf call that has invoked Exit.
C4_Witness ==
    \E t \in Callers :
        /\ call[t].decision = "reject"
        /\ call[t].lv = FatalLevel /\ call[t].variant = "f"
        /\ pc[t] = "exited"

\* C5 as stated: whenever Exit has been invoked for a Fatal-level call, the
\* record of the call has reached the write step.
C5_FatalWritesBeforeExit ==
    \A t \in Callers :
        (call[t].lv = FatalLevel /\ pc[t] = "exited") => Before(call[t], "write", "exit")

\* C5 as amended: whenever Exit has been invoked for a Fatal-level call
\* that passed the gate and whose Formatter succeeded, the record's bytes
\* were handed to the sink's Write, and the lock released, before Exit; when
\* the gate rejected the call or the Formatter failed, Exit was invoked
\* with nothing written.
C5_FatalWritesBeforeExitIfFormatted ==
    \A t \in Callers :
        (call[t].lv = FatalLevel /\ pc[t] = "exited") =>
            IF call[t].decision = "match" /\ ~call[t].fmtErr
            THEN /\ Before(call[t], "write", "exit")
                 /\ Before(call[t], "written", "exit")
                 /\ Before(call[t], "unlock", "exit")
                 /\ ~call[t].writeErr => WroteAll(call[t])
            ELSE /\ ~HasEv(call[t], "write")
                 /\ \A i \in DOMAIN out : out[i].id # call[t].id

\* A Fatalln call that was emitted and written, and has invoked Exit.
C5_Witness ==
    \E t \in Callers :
        /\ call[t].lv = FatalLevel /\ call[t].variant = "ln"
        /\ pc[t] = "exited"
        /\ call[t].decision = "match" /\ ~call[t].fmtErr /\ ~call[t].writeErr
        /\ WroteAll(call[t])

\* C6: at most one caller is inside the sink's Write at any time; the
\* chunks of one record are never separated by a chunk of another, a record
\* whose Write succeeded is in the sink whole, and the records are in the
\* sink in the order in which their callers took the lock.
InWrite == {t \in Callers : pc[t] \in {"write", "write_rest"}}
FirstParts == SelectSeq(out, LAMBDA ch : ch.part = 1)
C6_WritesDoNotInterleave ==
    /\ Cardinality(InWrite) <= 1
    /\ \A i, j, k \in DOMAIN out :
          (i < j /\ j < k /\ out[i].id = out[k].id) => out[j].id = out[i].id
    /\ \A i \in DOMAIN out :
          out[i].part = 2 => (i > 1 /\ out[i - 1] = [id |-> out[i].id, part |-> 1])
    /\ \A t \in Callers :
          (HasEv(call[t], "written") /\ ~call[t].writeErr) => WroteAll(call[t])
    /\ Len(FirstParts) <= Len(lockOrder)
    /\ \A i \in DOMAIN FirstParts : FirstParts[i].id = lockOrder[i]

\* Two concurrent callers have both written, and the call that started
\* second reached the sink first.
C6_Witness ==
    /\ program = "concurrent"
    /\ Len(out) = 4
    /\ out[1].id = 2 /\ out[2].id = 2 /\ out[3].id = 1 /\ out[4].id = 1
    /\ \E t1, t2 \in Callers : t1 # t2 /\ call[t1].id = 1 /\ call[t2].id = 2

\* C7: every buffer taken from the pool is checked out exactly while the
\* emission that took it is between its Get and its deferred Put, on every
\* path; so when no emission is in progress no buffer is checked out.
Holding ==
    {t \in Callers : pc[t] \in {"format", "fmt_lock", "fmt_report", "write_lock", "write",
                                "write_rest", "write_report", "unlock", "put"}}
InLog == {t \in Callers : pc[t] \in {"hooks", "hook_lock", "hook_report", "get"}} \cup Holding
C7_BuffersReturned ==
    /\ checkedOut = {call[t].buffer : t \in Holding}
    /\ Cardinality(checkedOut) = Cardinality(Holding)
    /\ pool \cap checkedOut = {}
    /\ InLog = {} => checkedOut = {}

\* No emission is in progress after one emission whose Formatter failed and
\* one Panic-level emission that unwound, and the pool has the buffers.
C7_Witness ==
    /\ InLog = {}
    /\ checkedOut = {} /\ pool # {}
    /\ \E t1, t2 \in Callers :
          /\ t1 # t2
          /\ call[t1].fmtErr /\ HasEv(call[t1], "put")
          /\ call[t2].panicking /\ pc[t2] = "unwound" /\ HasEv(call[t2], "put")
          /\ call[t2].writeErr

\* C10 as stated, its last part: the buffer is back in the pool before the
\* write to the output sink begins.
C10_BufferBackBeforeWrite ==
    \A t \in Callers :
        pc[t] \in {"write", "write_rest"} => call[t].buffer \in pool

\* The place of each step in Entry.log.
Rank(ev) ==
    CASE ev = "stamp" -> 1
      [] ev = "hooks" -> 2
      [] ev = "hook_report" -> 3
      [] ev = "get" -> 4
      [] ev = "format" -> 5
      [] ev = "detach" -> 6
      [] ev = "fmt_report" -> 7
      [] ev = "lock" -> 7
      [] ev = "write" -> 8
      [] ev = "written" -> 9
      [] ev = "write_report" -> 10
      [] ev = "unlock" -> 11
      [] ev = "panic" -> 12
      [] ev = "put" -> 13
      [] OTHER -> 14
\* The steps that must have been taken before a step.
Needs(ev) ==
    CASE ev = "stamp" -> {}
      [] ev = "hooks" -> {"stamp"}
      [] ev = "hook_report" -> {"hooks"}
      [] ev = "get" -> {"hooks"}
      [] ev = "format" -> {"get"}
      [] ev = "detach" -> {"format"}
      [] ev = "fmt_report" -> {"detach"}
      [] ev = "lock" -> {"detach"}
      [] ev = "write" -> {"lock"}
      [] ev = "written" -> {"write"}
      [] ev = "write_report" -> {"written"}
      [] ev = "unlock" -> {"written"}
      [] ev = "panic" -> {"detach"}
      [] ev = "put" -> {"detach"}
      [] OTHER -> {}

\* C10 as amended: the steps of one emission occur in the order stamp,
\* hooks, take and attach a buffer, Formatter, detach the buffer, then
\* either the report of a formatter failure or the write under the lock,
\* then the Panic-level panic, and only then the release of the buffer to
\* the pool (the Put is deferred to the end of log), before Exit; the
\* buffer is attached to the record only between Get and the Formatter's
\* return, and it stays checked out during the write.
C10_StepsInOrder ==
    \A t \in Callers :
        LET c == call[t]
        IN  /\ \A i, j \in DOMAIN c.tr : i < j => Rank(c.tr[i]) < Rank(c.tr[j])
            /\ \A j \in DOMAIN c.tr : \A ev \in Needs(c.tr[j]) : Before(c, ev, c.tr[j])
            /\ (HasEv(c, "put") \/ HasEv(c, "panic")) =>
                  (HasEv(c, "fmt_report") \/ HasEv(c, "unlock"))
            /\ (HasEv(c, "exit") /\ Emitted(c)) => HasEv(c, "put")
            /\ c.entry.Buffer # 0 <=> (HasEv(c, "get") /\ ~HasEv(c, "detach"))
            /\ (HasEv(c, "get") /\ ~HasEv(c, "put")) =>
                  (c.buffer \in checkedOut /\ c.buffer \notin pool)

\* A Panic-level emission that took every step: hook failure reported,
\* written with a write failure reported, panic raised, buffer released.
C10_Witness ==
    \E t \in Callers :
        call[t].tr = <<"stamp", "hooks", "hook_report", "get", "format", "detach", "lock",
                       "write", "written", "write_report", "unlock", "panic", "put">>


\* The diagnostic fallback sink holds a report of the given kind for call c.
Reported(c, what) == \E i \in DOMAIN stderr : stderr[i] = [by |-> c.id, what |-> what]
\* How a call may end: a return for Trace .. Error, the unwind with the
\* record for Panic, Exit for Fatal; no failure of a collaborator is handed
\* to the caller.
EndsAsItsLevelSays(t) ==
    /\ pc[t] = "returned" => (call[t].lv \in ErrorLevel..TraceLevel /\ call[t].payload = "none")
    /\ pc[t] = "unwound" => (call[t].lv = PanicLevel /\ call[t].payload = "entry")
    /\ pc[t] \in {"exit", "exited"} => call[t].lv = FatalLevel

\* C11: when the Formatter returns an error for a record, nothing is
\* written to the output sink for it, the failure is reported to the
\* diagnostic sink, the call ends as its level says without handing the
\* failure to the caller, and the Fatal exit or the Panic unwind still
\* happens.
C11_FormatterFailureSuppressesWrite ==
    \A t \in Callers :
        call[t].fmtErr =>
            /\ ~HasEv(call[t], "lock") /\ ~HasEv(call[t], "write")
            /\ \A i \in DOMAIN out : out[i].id # call[t].id
            /\ pc[t] \in {"fmt_lock", "fmt_report", "put", "returned", "unwound", "exit",
                          "exited"}
            /\ pc[t] \notin {"fmt_lock", "fmt_report"} =>
                  Reported(call[t], "Failed to obtain reader")
            /\ EndsAsItsLevelSays(t)
            /\ call[t].lv = FatalLevel => pc[t] \notin {"returned", "unwound"}
            /\ call[t].lv = PanicLevel => pc[t] \notin {"returned", "exit", "exited"}
            /\ HasEv(call[t], "put") =>
                  (logPanics(call[t].lv) <=> Before(call[t], "fmt_report", "panic"))

\* A Panicln call whose Formatter failed: reported, nothing written, and
\* the caller unwound with the record.
C11_Witness ==
    \E t \in Callers :
        /\ call[t].fmtErr /\ call[t].lv = PanicLevel /\ call[t].variant = "ln"
        /\ pc[t] = "unwound" /\ call[t].payload = "entry"
        /\ Reported(call[t], "Failed to obtain reader")
        /\ \A i \in DOMAIN out : out[i].id # call[t].id

\* C12: a failure of hook dispatch or of the sink's Write is reported to
\* the diagnostic sink and never handed to the caller; after a hook failure
\* the emission goes on: the Formatter runs and, unless it fails, the bytes
\* are written.
C12_FailuresOnlyReported ==
    \A t \in Callers :
        LET c == call[t]
        IN  /\ (c.hookErr /\ pc[t] \notin {"hook_lock", "hook_report"}) =>
                  Reported(c, "Failed to fire hook")
            /\ (c.hookErr /\ pc[t] \in {"returned", "unwound", "exit", "exited"}) =>
                  /\ Before(c, "hook_report", "format")
                  /\ ~c.fmtErr => Before(c, "format", "write")
            /\ (c.writeErr /\ pc[t] # "write_report") =>
                  Reported(c, "Failed to write to log")
            /\ (c.hookErr \/ c.writeErr) => EndsAsItsLevelSays(t)
            /\ \A i \in DOMAIN stderr :
                  stderr[i].by = c.id =>
                      \/ c.hookErr /\ stderr[i].what = "Failed to fire hook"
                      \/ c.fmtErr /\ stderr[i].what = "Failed to obtain reader"
                      \/ c.writeErr /\ stderr[i].what = "Failed to write to log"

\* An Info call whose hooks failed and whose Write failed: both failures
\* are in the diagnostic sink and the call returned.
C12_Witness ==
    \E t \in Callers :
        /\ call[t].lv = InfoLevel /\ call[t].hookErr /\ call[t].writeErr
        /\ pc[t] = "returned" /\ call[t].payload = "none"
        /\ Reported(call[t], "Failed to fire hook")
        /\ Reported(call[t], "Failed to write to log")
        /\ Before(call[t], "hooks", "write")

\* C13 as stated: a caller holds the logger's lock only while it writes a
\* record's bytes to the output sink.
C13_LockOnlyWhileWriting ==
    \A t \in Callers :
        mu = t => pc[t] \in {"write", "write_rest", "write_report", "unlock"}

\* C13 as amended: a caller holds the lock exactly while it writes a
\* record's bytes to the output sink (the report of a write failure
\* included) or reports a hook failure or a formatter failure to the
\* diagnostic sink; never while hooks are dispatched, a buffer is taken or
\* the Formatter runs.
C13_LockOnlyForSinks ==
    /\ mu \in {0} \cup Callers
    /\ \A t \in Callers :
          mu = t <=> pc[t] \in {"hook_report", "fmt_report", "write", "write_rest",
                                "write_report", "unlock"}
    /\ \A t \in Callers : pc[t] \in {"hooks", "get", "format"} => mu # t

\* One caller's Formatter is about to run while another caller is inside
\* the sink's Write with the lock.
C13_Witness ==
    \E t1, t2 \in Callers :
        /\ t1 # t2
        /\ pc[t1] = "format"
        /\ pc[t2] = "write_rest" /\ mu = t2

\* The call of caller t unwound with the record, after its write step or
\* its formatter-failure report was over and the lock released.
UnwoundWithRecord(t) ==
    LET c == call[t]
    IN  /\ c.payload = "entry" /\ c.panicking
        /\ c.entry.Level = PanicLevel /\ c.entry.Message = "msg"
        /\ c.entry.Data = entries[c.e].Data
        /\ Before(c, "unlock", "panic") \/ Before(c, "fmt_report", "panic")
        /\ mu # t

\* C14: every Panic-level call (Panic, Panicf, Panicln) ends by unwinding
\* the caller with the emitted record as payload, after the write step or
\* the formatter-failure report is over and the lock is released, whether
\* or not formatting and writing succeeded.
C14_PanicUnwindsWithRecord ==
    \A t \in Callers :
        (call[t].id > 0 /\ call[t].lv = PanicLevel) =>
            /\ pc[t] \notin {"returned", "exit", "exited"}
            /\ pc[t] = "unwound" => UnwoundWithRecord(t)

\* The same statement for the calls whose gate did not fail.
C14_HoldsWhenGateCompletes ==
    \A t \in Callers :
        (call[t].id > 0 /\ call[t].lv = PanicLevel /\ call[t].decision # "fault") =>
            /\ pc[t] \notin {"returned", "exit", "exited"}
            /\ pc[t] = "unwound" => UnwoundWithRecord(t)

\* The number of times a step occurs in the call.
Count(c, ev) == Cardinality({i \in DOMAIN c.tr : c.tr[i] = ev})

\* C15: every Fatal-level call (Fatal, Fatalf, Fatalln) terminates the
\* process: it never returns or unwinds, it invokes Exit once, and it does
\* so only after the emission, if any, is back in the logging method.
C15_FatalExitsOnce ==
    /\ exits <= 1
    /\ \A t \in Callers :
          (call[t].id > 0 /\ call[t].lv = FatalLevel) =>
              /\ pc[t] \notin {"returned", "unwound"}
              /\ Count(call[t], "exit") = (IF pc[t] = "exited" THEN 1 ELSE 0)
              /\ pc[t] = "exited" => exits = 1
              /\ (pc[t] \in {"exit", "exited"} /\ Emitted(call[t])) => HasEv(call[t], "put")

\* The same statement for the calls whose gate did not fail.
C15_HoldsWhenGateCompletes ==
    /\ exits <= 1
    /\ \A t \in Callers :
          (call[t].id > 0 /\ call[t].lv = FatalLevel /\ call[t].decision # "fault") =>
              /\ pc[t] \notin {"returned", "unwound"}
              /\ Count(call[t], "exit") = (IF pc[t] = "exited" THEN 1 ELSE 0)
              /\ pc[t] = "exited" => exits = 1
              /\ (pc[t] \in {"exit", "exited"} /\ Emitted(call[t])) => HasEv(call[t], "put")

\* C20: for every record built through the chaining operations the gate
\* ends with a decision to emit or not to emit and never fails, whatever
\* value is stored under the module-name key.
C20_GateNeverFails ==
    \A t \in Callers :
        call[t].gates > 0 =>
            /\ call[t].decision \in {"match", "reject"}
            /\ call[t].payload # "typeassert"

\* C16: the fields a hook adds to the record it is handed stay within that
\* emission: every Entry keeps the field set it was built with, and every
\* logging call finds, at its gate, the record as it was built.
C16_HookChangesStayInEmission ==
    /\ \A e \in 1..Len(entries) : FieldsOf(maps, entries, e) = born[e].fields
    /\ \A t \in Callers : call[t].gates > 0 => call[t].data = born[call[t].e].fields

\* C17: an emission works on its own copy of the Entry: the Time, Level,
\* Message and Buffer of the Entries the callers hold are never written,
\* the copy carries the stamp, and the buffer handle is on the copy only
\* between the Get of the buffer and the return of the Formatter.
C17_EmissionOnPrivateCopy ==
    /\ \A e \in 1..Len(entries) : entries[e] = EntryObj(entries[e].Data)
    /\ \A t \in Callers :
          LET c == call[t]
          IN  /\ Emitted(c) =>
                    /\ c.entry.Level = c.lv /\ c.entry.Message = "msg"
                    /\ c.entry.Data = entries[c.e].Data
              /\ c.entry.Buffer # 0 <=> pc[t] = "format"
              /\ c.entry.Buffer # 0 => (c.entry.Buffer = c.buffer /\ c.buffer \in checkedOut)

\* Two concurrent emissions of one Entry at different levels, one with its
\* buffer attached for the Formatter and one already writing.
C17_Witness ==
    \E t1, t2 \in Callers :
        /\ t1 # t2 /\ call[t1].e = call[t2].e
        /\ pc[t1] = "format" /\ call[t1].entry.Buffer # 0
        /\ pc[t2] = "write_rest" /\ call[t2].entry.Buffer = 0
        /\ call[t1].entry.Level = FatalLevel /\ call[t2].entry.Level = InfoLevel
        /\ entries[call[t1].e].Level = 0 /\ entries[call[t1].e].Buffer = 0

\* The steps of Entry.log that make an emission.
EmissionSteps == {"stamp", "hooks", "get", "format", "write", "written", "put"}

\* C19: one logging call makes at most one emission, also when it is a
\* formatted or line method, which checks the gate itself and again in the
\* plain method it calls, and also when the registry changes between the
\* two checks: hooks are dispatched at most once, the Formatter runs at
\* most once and at most one write reaches the sink.
C19_AtMostOneEmission ==
    \A t \in Callers :
        LET c == call[t]
        IN  /\ \A ev \in EmissionSteps : Count(c, ev) <= 1
            /\ Cardinality({i \in DOMAIN out : out[i] = [id |-> c.id, part |-> 1]}) <= 1
            /\ Cardinality({i \in DOMAIN out : out[i].id = c.id}) <= 2
            /\ c.gates <= (IF c.variant = "" THEN 1 ELSE 2)
            /\ (c.gates = 2 /\ c.decision = "reject") => ~Emitted(c)

\* After an Infof call that was emitted once, a second Infof call passed
\* its own gate, the registry changed, and the gate of Info rejected it:
\* the sink holds the one record of the first call only.
C19_Witness ==
    \E t \in Callers :
        /\ call[t].id = 2 /\ call[t].variant = "f" /\ call[t].lv = InfoLevel
        /\ call[t].gates = 2 /\ call[t].decision = "reject"
        /\ pc[t] = "returned" /\ call[t].tr = <<>>
        /\ out = <<[id |-> 1, part |-> 1], [id |-> 1, part |-> 2]>>

\* The caller is inside a logging call.
InCall(t) == pc[t] \notin {"idle", "returned", "unwound", "exited", "crashed"}
\* The logging call of the caller is over, or the process is.
Completed(t) == pc[t] \in {"returned", "unwound", "exited"} \/ ~Running
\* While the process runs, a caller inside a logging call can take a step,
\* or another caller that holds the lock can.
NoDeadlock ==
    (Running /\ \E t \in Callers : InCall(t)) => \E t \in Callers : ENABLED Step(t)
\* The lock is held only by a caller inside Entry.log.
LockHeldInsideLog == \A t \in Callers : mu = t => t \in InLog

\* C18: under a fair scheduler every logging call that any of the callers
\* started eventually completes: it returns, unwinds, or reaches Exit (or
\* the process ends through another caller); no reachable state is a
\* deadlock, and no caller that left the emission holds the lock.
C18_CallsComplete ==
    /\ [](NoDeadlock /\ LockHeldInsideLog)
    /\ \A t \in Callers : InCall(t) ~> Completed(t)

\* Two concurrent callers contended for the lock and both calls are over:
\* one returned and one unwound, each with its record in the sink.
C18_Witness ==
    \E t1, t2 \in Callers :
        /\ t1 # t2 /\ program = "concurrent"
        /\ pc[t1] = "returned" /\ pc[t2] = "unwound"
        /\ WroteAll(call[t1]) /\ WroteAll(call[t2])
        /\ mu = 0
====
